---- MODULE Spec2Model ----
(***************************************************************************)
(* Meeting Minutes API: the request pipeline of src/main.py,               *)
(* src/minutes_service.py and src/llm_service.py.                          *)
(*                                                                         *)
(*   POST /generate-minutes -> MinutesService.generate_minutes             *)
(*        -> LLMService.generate_json -> LLMService.generate (retry loop)  *)
(*                                                                         *)
(* Text is a sequence of one-character strings, so that strip, startswith, *)
(* endswith, slicing and JSON parsing are computed on characters.          *)
(***************************************************************************)
EXTENDS Integers, Sequences, FiniteSets, TLC

(***************************************************************************)
(* Bounds of the model.                                                    *)
(***************************************************************************)
\* largest max_retries a direct caller of LLMService.generate passes
MaxAttempts == 4
\* longest action_items array in the model's JSON
MaxItems == 2
\* longest run of whitespace the model puts around fences and JSON
MaxWs == 1

(***************************************************************************)
(* Program constants.                                                      *)
(***************************************************************************)
DefaultMaxRetries == 3
ConnectionDelay == 2
BackoffBase == 2
JsonOpenerLen == 7
FenceLen == 3
MinNotesLength == 50
MaxNotesLength == 50000
StatusOK == 200
StatusUnprocessable == 422
StatusServerError == 500

(***************************************************************************)
(* String literals of the program, as character sequences.                 *)
(***************************************************************************)
\* the backquote character (the lexer admits none inside a string)
BT == "BACKQUOTE"
QUOTE == "\""
NL == "\n"
SP == " "
Fence == <<BT, BT, BT>>
JsonFence == <<BT, BT, BT, "j", "s", "o", "n">>
K_title == <<"t", "i", "t", "l", "e">>
K_date == <<"d", "a", "t", "e">>
K_attendees == <<"a", "t", "t", "e", "n", "d", "e", "e", "s">>
K_topics_discussed ==
    <<"t", "o", "p", "i", "c", "s", "_", "d", "i", "s", "c", "u", "s", "s", "e", "d">>
K_action_items == <<"a", "c", "t", "i", "o", "n", "_", "i", "t", "e", "m", "s">>
K_next_meeting == <<"n", "e", "x", "t", "_", "m", "e", "e", "t", "i", "n", "g">>
K_topic == <<"t", "o", "p", "i", "c">>
K_summary == <<"s", "u", "m", "m", "a", "r", "y">>
K_decisions == <<"d", "e", "c", "i", "s", "i", "o", "n", "s">>
K_task == <<"t", "a", "s", "k">>
K_assignee == <<"a", "s", "s", "i", "g", "n", "e", "e">>
K_deadline == <<"d", "e", "a", "d", "l", "i", "n", "e">>
K_priority == <<"p", "r", "i", "o", "r", "i", "t", "y">>
S_UntitledMeeting ==
    <<"U", "n", "t", "i", "t", "l", "e", "d", " ", "M", "e", "e", "t", "i", "n", "g">>
S_UnknownTopic == <<"U", "n", "k", "n", "o", "w", "n", " ", "T", "o", "p", "i", "c">>
S_TBD == <<"T", "B", "D">>
S_high == <<"h", "i", "g", "h">>
S_medium == <<"m", "e", "d", "i", "u", "m">>
S_low == <<"l", "o", "w">>
S_null == <<"n", "u", "l", "l">>
\* strings the model writes that are no literal of the program
S_urgent == <<"u", "r", "g", "e", "n", "t">>
S_Ann == <<"A", "n", "n">>
S_X == <<"X">>
S_Sure == <<"S", "u", "r", "e", ":">>
Digits == {"0", "1", "2", "3", "4", "5", "6", "7", "8", "9"}

(***************************************************************************)
(* JSON values, as json.loads returns them: [t, v] with                    *)
(*   t = "obj"  v a function from keys (character sequences) to values     *)
(*   t = "arr"  v a sequence of values                                     *)
(*   t = "str"  v the characters          t = "num"  v the digits          *)
(*   t = "null" v empty (Python None)                                      *)
(***************************************************************************)
JNull == [t |-> "null", v |-> <<>>]
JStr(s) == [t |-> "str", v |-> s]
JNum(s) == [t |-> "num", v |-> s]
JArr(e) == [t |-> "arr", v |-> e]
JObj(f) == [t |-> "obj", v |-> f]
EmptyDict == <<>>

(***************************************************************************)
(* str.strip(): removes leading and trailing whitespace.                   *)
(***************************************************************************)
IsSpace(c) == c \in {SP, NL}

RECURSIVE lstrip(_)
lstrip(s) == IF s # <<>> /\ IsSpace(Head(s)) THEN lstrip(Tail(s)) ELSE s

RECURSIVE rstrip(_)
rstrip(s) ==
    IF s # <<>> /\ IsSpace(s[Len(s)]) THEN rstrip(SubSeq(s, 1, Len(s) - 1)) ELSE s

strip(s) == rstrip(lstrip(s))

startswith(s, p) == Len(s) >= Len(p) /\ SubSeq(s, 1, Len(p)) = p

endswith(s, p) == Len(s) >= Len(p) /\ SubSeq(s, Len(s) - Len(p) + 1, Len(s)) = p

\* s[n:]
SliceFrom(s, n) == IF n >= Len(s) THEN <<>> ELSE SubSeq(s, n + 1, Len(s))

\* s[:-n]
SliceDropLast(s, n) == IF n >= Len(s) THEN <<>> ELSE SubSeq(s, 1, Len(s) - n)

(***************************************************************************)
(* json.loads on the subset of JSON the model writes here: objects,        *)
(* arrays, strings without escapes, unsigned integers and null.  A result  *)
(* is [ok, val, next]: next is the index after the value.                  *)
(***************************************************************************)
ParseFail == [ok |-> FALSE, val |-> JNull, next |-> 0]
ParseOk(val, next) == [ok |-> TRUE, val |-> val, next |-> next]

RECURSIVE SkipWs(_, _)
SkipWs(s, i) == IF i <= Len(s) /\ IsSpace(s[i]) THEN SkipWs(s, i + 1) ELSE i

\* index of the closing quote of the string whose first character is at i,
\* 0 when the string is unterminated or holds a control character
RECURSIVE ScanString(_, _)
ScanString(s, i) ==
    IF i > Len(s) THEN 0
    ELSE IF s[i] = QUOTE THEN i
    ELSE IF s[i] = NL THEN 0
    ELSE ScanString(s, i + 1)

RECURSIVE ScanDigits(_, _)
ScanDigits(s, i) == IF i <= Len(s) /\ s[i] \in Digits THEN ScanDigits(s, i + 1) ELSE i

RECURSIVE ParseValue(_, _)
RECURSIVE ParseMembers(_, _, _)
RECURSIVE ParseElements(_, _, _)

\* after "{" or ",": i is at the first non-blank character
ParseMembers(s, i, acc) ==
    IF i > Len(s) \/ s[i] # QUOTE THEN ParseFail
    ELSE LET close == ScanString(s, i + 1)
             colon == SkipWs(s, close + 1)
         IN  IF close = 0 \/ colon > Len(s) \/ s[colon] # ":" THEN ParseFail
             ELSE LET key == SubSeq(s, i + 1, close - 1)
                      r == ParseValue(s, SkipWs(s, colon + 1))
                      j == SkipWs(s, r.next)
                      \* a repeated key keeps the last value
                      acc2 == (key :> r.val) @@ acc
                  IN  IF ~r.ok \/ j > Len(s) THEN ParseFail
                      ELSE IF s[j] = "}" THEN ParseOk(JObj(acc2), j + 1)
                      ELSE IF s[j] = "," THEN ParseMembers(s, SkipWs(s, j + 1), acc2)
                      ELSE ParseFail

ParseElements(s, i, acc) ==
    LET r == ParseValue(s, i)
        j == SkipWs(s, r.next)
        acc2 == Append(acc, r.val)
    IN  IF ~r.ok \/ j > Len(s) THEN ParseFail
        ELSE IF s[j] = "]" THEN ParseOk(JArr(acc2), j + 1)
        ELSE IF s[j] = "," THEN ParseElements(s, SkipWs(s, j + 1), acc2)
        ELSE ParseFail

ParseValue(s, i) ==
    IF i > Len(s) THEN ParseFail
    ELSE IF s[i] = "{" THEN
        LET j == SkipWs(s, i + 1)
        IN  IF j <= Len(s) /\ s[j] = "}" THEN ParseOk(JObj(EmptyDict), j + 1)
            ELSE ParseMembers(s, j, EmptyDict)
    ELSE IF s[i] = "[" THEN
        LET j == SkipWs(s, i + 1)
        IN  IF j <= Len(s) /\ s[j] = "]" THEN ParseOk(JArr(<<>>), j + 1)
            ELSE ParseElements(s, j, <<>>)
    ELSE IF s[i] = QUOTE THEN
        LET close == ScanString(s, i + 1)
        IN  IF close = 0 THEN ParseFail
            ELSE ParseOk(JStr(SubSeq(s, i + 1, close - 1)), close + 1)
    ELSE IF s[i] \in Digits THEN
        \* no leading zeros: "05" is the number 0 followed by extra data
        LET j == IF s[i] = "0" THEN i + 1 ELSE ScanDigits(s, i)
        IN  ParseOk(JNum(SubSeq(s, i, j - 1)), j)
    ELSE IF i + 3 <= Len(s) /\ SubSeq(s, i, i + 3) = S_null THEN ParseOk(JNull, i + 4)
    ELSE ParseFail

\* json.loads(s): one value, blanks around it, nothing else
json_loads(s) ==
    LET r == ParseValue(s, SkipWs(s, 1))
    IN  IF r.ok /\ SkipWs(s, r.next) = Len(s) + 1 THEN r ELSE ParseFail

(***************************************************************************)
(* What the completion capability can answer.  A document is a syntax      *)
(* tree [t, v]; for an object v is the sequence of <<key, tree>> members   *)
(* in the order written.  Render writes the tree as JSON text.             *)
(***************************************************************************)
TNull == [t |-> "null", v |-> <<>>]
TStr(s) == [t |-> "str", v |-> s]
TNum(s) == [t |-> "num", v |-> s]
TArr(e) == [t |-> "arr", v |-> e]
TObj(m) == [t |-> "obj", v |-> m]

RECURSIVE Render(_)
RECURSIVE RenderMembers(_)
RECURSIVE RenderElements(_)

RenderMembers(m) ==
    IF m = <<>> THEN <<>>
    ELSE <<QUOTE>> \o m[1][1] \o <<QUOTE, ":", SP>> \o Render(m[1][2])
         \o (IF Len(m) > 1 THEN <<",", SP>> \o RenderMembers(Tail(m)) ELSE <<>>)

RenderElements(e) ==
    IF e = <<>> THEN <<>>
    ELSE Render(e[1])
         \o (IF Len(e) > 1 THEN <<",", SP>> \o RenderElements(Tail(e)) ELSE <<>>)

Render(d) ==
    CASE d.t = "obj" -> <<"{">> \o RenderMembers(d.v) \o <<"}">>
      [] d.t = "arr" -> <<"[">> \o RenderElements(d.v) \o <<"]">>
      [] d.t = "str" -> <<QUOTE>> \o d.v \o <<QUOTE>>
      [] d.t = "num" -> d.v
      [] d.t = "null" -> S_null

\* the JSON value a syntax tree denotes
RECURSIVE ToValue(_)
RECURSIVE MembersToDict(_)
RECURSIVE ElementsToList(_)

MembersToDict(m) ==
    IF m = <<>> THEN EmptyDict
    ELSE LET n == Len(m)
         IN  (m[n][1] :> ToValue(m[n][2])) @@ MembersToDict(SubSeq(m, 1, n - 1))

ElementsToList(e) == IF e = <<>> THEN <<>> ELSE <<ToValue(e[1])>> \o ElementsToList(Tail(e))

ToValue(d) ==
    CASE d.t = "obj" -> JObj(MembersToDict(d.v))
      [] d.t = "arr" -> JArr(ElementsToList(d.v))
      [] d.t = "str" -> JStr(d.v)
      [] d.t = "num" -> JNum(d.v)
      [] d.t = "null" -> JNull

\* a member the model may leave out
Absent == <<>>
Given(key, tree) == <<<<key, tree>>>>

AssigneeChoices ==
    {Absent, Given(K_assignee, TStr(S_Ann)), Given(K_assignee, TStr(<<>>)),
     Given(K_assignee, TNull)}

PriorityChoices ==
    {Absent, Given(K_priority, TStr(S_high)), Given(K_priority, TStr(S_medium)),
     Given(K_priority, TStr(S_low)), Given(K_priority, TStr(S_urgent)),
     Given(K_priority, TNull)}

ItemTree(a, p) == TObj(Given(K_task, TStr(S_X)) \o a \o p)

\* elements of the action_items array: objects that vary the assignee or the
\* priority, and a string where an object is expected
ItemTrees ==
    {ItemTree(a, Absent) : a \in AssigneeChoices}
    \cup {ItemTree(Given(K_assignee, TStr(S_Ann)), p) : p \in PriorityChoices}
    \cup {ItemTree(Given(K_assignee, TNull), Given(K_priority, TStr(S_urgent)))}
    \cup {TStr(S_X)}

ItemLists == UNION {[1..n -> ItemTrees] : n \in 0..MaxItems}

TopicTree == TObj(Given(K_topic, TStr(S_X)) \o Given(K_summary, TStr(S_X)))

TopicsChoices ==
    {Absent, Given(K_topics_discussed, TArr(<<TopicTree>>)),
     Given(K_topics_discussed, TArr(<<TObj(<<>>)>>)),
     Given(K_topics_discussed, TArr(<<TStr(S_X)>>)),
     Given(K_topics_discussed, TArr(<<TObj(Given(K_summary, TNull))>>))}

ObjectDocs ==
    {TObj(Given(K_title, TStr(S_X)) \o Given(K_action_items, TArr(items)))
        : items \in ItemLists}
    \cup {TObj(tc \o Given(K_action_items, TArr(items)))
            : tc \in TopicsChoices, items \in {l \in ItemLists : Len(l) <= 1}}
    \cup {TObj(<<>>),
          TObj(Given(K_title, TNull)),
          TObj(Given(K_action_items, TNull)),
          TObj(Given(K_attendees, TArr(<<TStr(S_Ann)>>)) \o Given(K_date, TNull)
               \o Given(K_next_meeting, TStr(S_X)))}

\* valid JSON that is no object
NonObjectDocs ==
    {TArr(<<>>), TArr(<<TObj(<<>>)>>), TStr(S_X), TNum(<<"5">>), TNull}

\* the documents the model also wraps in fences and blanks
FencedDocs ==
    {TObj(<<>>), TObj(Given(K_title, TStr(S_X))),
     TObj(Given(K_action_items, TArr(<<ItemTree(Absent, Absent)>>)))}

WsRuns == UNION {[1..n -> {SP, NL}] : n \in 0..MaxWs}

\* how the model lays the document out: blanks, fences, and two defects
\* (prose before the document, a document cut short of its last character)
Layouts ==
    [outer : WsRuns, opener : {"none", "json", "bare"}, gap : WsRuns,
     closer : BOOLEAN, defect : {"none"}]
    \cup [outer : {<<>>}, opener : {"none", "json"}, gap : {<<>>},
          closer : BOOLEAN, defect : {"prose", "cut"}]

PlainLayout ==
    [outer |-> <<>>, opener |-> "none", gap |-> <<>>, closer |-> FALSE, defect |-> "none"]

LayOut(w, d) ==
    LET body == IF w.defect = "cut" THEN SliceDropLast(Render(d), 1) ELSE Render(d)
        open == CASE w.opener = "json" -> JsonFence
                  [] w.opener = "bare" -> Fence
                  [] w.opener = "none" -> <<>>
    IN  w.outer \o (IF w.defect = "prose" THEN S_Sure ELSE <<>>) \o open \o w.gap
        \o body \o w.gap \o (IF w.closer THEN Fence ELSE <<>>) \o w.outer

\* the answers of the capability: layout and document
ModelOutputs ==
    {<<PlainLayout, d>> : d \in ObjectDocs \cup NonObjectDocs}
    \cup (Layouts \X FencedDocs)


(***************************************************************************)
(* LLMService.generate_json, lines 134-145: the repair of the raw text.    *)
(***************************************************************************)
\* a slip: the tagged opener cut like the bare one
StripOpener_BareOnly(cleaned) ==
    IF startswith(cleaned, Fence) THEN SliceFrom(cleaned, FenceLen) ELSE cleaned

StripOpener(cleaned) ==
    IF startswith(cleaned, JsonFence) THEN SliceFrom(cleaned, JsonOpenerLen)
    ELSE IF startswith(cleaned, Fence) THEN SliceFrom(cleaned, FenceLen)
    ELSE cleaned

StripCloser(cleaned) ==
    IF endswith(cleaned, Fence) THEN SliceDropLast(cleaned, FenceLen) ELSE cleaned

CleanResponse(raw_response) == strip(StripCloser(StripOpener(strip(raw_response))))


(***************************************************************************)
(* Outcomes of a call: a returned value or a raised exception.  An         *)
(* exception is [cls, origin, arg]: its Python class, the component that   *)
(* created it, and the JSON value it carries (JNull when it carries none). *)
(***************************************************************************)
Return(value) == [kind |-> "return", value |-> value]
Raise(exc) == [kind |-> "raise", exc |-> exc]
Exc(cls, origin, arg) == [cls |-> cls, origin |-> origin, arg |-> arg]
NoResult == [kind |-> "none"]

\* classes of this model that are ValueError or a subclass of it
\* (pydantic's ValidationError derives from ValueError)
ValueErrorClasses == {"ValueError", "ValidationError"}
IsValueError(exc) == exc.cls \in ValueErrorClasses

(***************************************************************************)
(* src/models.py: the typed models and their field validation.             *)
(***************************************************************************)
IsStr(x) == x.t = "str"
IsOptionalStr(x) == x.t \in {"str", "null"}
IsListOfStr(x) == x.t = "arr" /\ \A i \in 1..Len(x.v) : IsStr(x.v[i])

PriorityValues == {S_high, S_medium, S_low}

\* a slip: a value outside the enumeration replaced by the default
Priority_Defaulting(value) ==
    IF IsStr(value) /\ value.v \in PriorityValues THEN Return(value.v)
    ELSE Return(S_medium)

\* Priority(value): the member with that value, else ValueError naming it
Priority(value) ==
    IF IsStr(value) /\ value.v \in PriorityValues THEN Return(value.v)
    ELSE Raise(Exc("ValueError", "models", value))

TopicDiscussed(topic, summary, decisions) ==
    IF IsStr(topic) /\ IsStr(summary) /\ IsListOfStr(decisions)
    THEN Return([topic |-> topic.v, summary |-> summary.v, decisions |-> decisions.v])
    ELSE Raise(Exc("ValidationError", "models", JNull))

ActionItem(task, assignee, deadline, priority) ==
    IF IsStr(task) /\ IsStr(assignee) /\ IsOptionalStr(deadline)
    THEN Return([task |-> task.v, assignee |-> assignee.v, deadline |-> deadline,
                 priority |-> priority])
    ELSE Raise(Exc("ValidationError", "models", JNull))

MeetingMinutesResponse(title, date, attendees, topics, items, next_meeting) ==
    IF IsStr(title) /\ IsOptionalStr(date) /\ IsListOfStr(attendees)
       /\ IsOptionalStr(next_meeting)
    THEN Return([title |-> title.v, date |-> date, attendees |-> attendees.v,
                 topics_discussed |-> topics, action_items |-> items,
                 next_meeting |-> next_meeting])
    ELSE Raise(Exc("ValidationError", "models", JNull))

(***************************************************************************)
(* MinutesService.generate_minutes, lines 111-135: the coercion of the     *)
(* parsed JSON, in Python's order of evaluation.  The first exception ends *)
(* it.                                                                     *)
(***************************************************************************)
\* d.get(key, default) on a dict
dict_get(d, key, default) == IF key \in DOMAIN d.v THEN d.v[key] ELSE default

\* x.get(...) where x is no dict: list, str, int and None have no get
NoGetAttribute == Raise(Exc("AttributeError", "runtime", JNull))

\* `for t in x`: a list yields its elements, a str its characters, a dict its
\* keys (strings, whatever they spell); None and int are not iterable
Iterate(x) ==
    CASE x.t = "arr" -> Return(x.v)
      [] x.t = "str" -> Return([i \in 1..Len(x.v) |-> JStr(<<x.v[i]>>)])
      [] x.t = "obj" -> Return([i \in 1..Cardinality(DOMAIN x.v) |-> JStr(<<>>)])
      [] OTHER -> Raise(Exc("TypeError", "runtime", JNull))

TopicOf(t) ==
    IF t.t # "obj" THEN NoGetAttribute
    ELSE TopicDiscussed(dict_get(t, K_topic, JStr(S_UnknownTopic)),
                        dict_get(t, K_summary, JStr(<<>>)),
                        dict_get(t, K_decisions, JArr(<<>>)))

ActionItemOf(a) ==
    IF a.t # "obj" THEN NoGetAttribute
    ELSE LET priority == Priority(dict_get(a, K_priority, JStr(S_medium)))
         IN  IF priority.kind = "raise" THEN priority
             ELSE ActionItem(dict_get(a, K_task, JStr(<<>>)),
                             dict_get(a, K_assignee, JStr(S_TBD)),
                             dict_get(a, K_deadline, JNull),
                             priority.value)

\* [TopicOf(t) for t in elems]
RECURSIVE TopicList(_, _)
TopicList(elems, acc) ==
    IF elems = <<>> THEN Return(acc)
    ELSE LET r == TopicOf(Head(elems))
         IN  IF r.kind = "raise" THEN r ELSE TopicList(Tail(elems), Append(acc, r.value))

\* [ActionItemOf(a) for a in elems]
RECURSIVE ActionItemList(_, _)
ActionItemList(elems, acc) ==
    IF elems = <<>> THEN Return(acc)
    ELSE LET r == ActionItemOf(Head(elems))
         IN  IF r.kind = "raise" THEN r
             ELSE ActionItemList(Tail(elems), Append(acc, r.value))

BuildMinutes(data) ==
    IF data.t # "obj" THEN NoGetAttribute
    ELSE LET topic_iter == Iterate(dict_get(data, K_topics_discussed, JArr(<<>>)))
             topics == IF topic_iter.kind = "raise" THEN topic_iter
                       ELSE TopicList(topic_iter.value, <<>>)
             item_iter == Iterate(dict_get(data, K_action_items, JArr(<<>>)))
             items == IF item_iter.kind = "raise" THEN item_iter
                      ELSE ActionItemList(item_iter.value, <<>>)
         IN  IF topics.kind = "raise" THEN topics
             ELSE IF items.kind = "raise" THEN items
             ELSE MeetingMinutesResponse(
                      dict_get(data, K_title, JStr(S_UntitledMeeting)),
                      dict_get(data, K_date, JNull),
                      dict_get(data, K_attendees, JArr(<<>>)),
                      topics.value, items.value,
                      dict_get(data, K_next_meeting, JNull))


(***************************************************************************)
(* State.                                                                  *)
(***************************************************************************)
VARIABLES
    pc,             \* "idle", "attempt", "repair", "coerce", "respond", "done"
    entry,          \* who called: "none", "generate" (a direct caller), "http"
    notes_len,      \* len(request.raw_notes) of the request being handled
    max_retries,    \* LLMService.generate's max_retries
    attempt,        \* the loop variable of LLMService.generate
    calls,          \* invocations of client.chat.completions.create so far
    sleeps,         \* the arguments of time.sleep so far, in order
    outcomes,       \* what each invocation of the capability did, in order
    output,         \* the <<layout, document>> the capability answered with
    gen_result,     \* outcome of LLMService.generate
    json_result,    \* outcome of LLMService.generate_json
    minutes_result, \* outcome of MinutesService.generate_minutes
    response,       \* the HTTP response: [status, detail]
    waiting,        \* requests received whose endpoint coroutine has not started
    served          \* the responses sent so far, in order: [kind, status]

\* the frame of the request whose endpoint is running
request_vars ==
    <<pc, entry, notes_len, max_retries, attempt, calls, sleeps, outcomes, output,
      gen_result, json_result, minutes_result, response>>

\* the other requests of the server process
loop_vars == <<waiting, served>>

vars == <<request_vars, loop_vars>>

\* message.content: a str or None
Content(text) == [is_none |-> FALSE, text |-> text]
NoContent == [is_none |-> TRUE, text |-> <<>>]

NoOutput == <<>>
NoResponse == [status |-> 0, detail |-> "none", exc |-> Exc("none", "none", JNull)]

\* the failures the capability raises that generate has no except clause for
UnclassifiedClasses == {"RuntimeError", "ValueError"}

\* lengths of raw_notes a client posts; -1 stands for a body without raw_notes
NotesLengths == {-1, 0, MinNotesLength - 1, MinNotesLength, MaxNotesLength,
                 MaxNotesLength + 1}

\* answers given to a direct caller of generate, who does not parse them
DirectOutputs == {PlainLayout} \X FencedDocs

Init ==
    /\ pc = "idle"
    /\ entry = "none"
    /\ notes_len = 0
    /\ max_retries = 0
    /\ attempt = 0
    /\ calls = 0
    /\ sleeps = <<>>
    /\ outcomes = <<>>
    /\ output = NoOutput
    /\ gen_result = NoResult
    /\ json_result = NoResult
    /\ minutes_result = NoResult
    /\ response = NoResponse
    /\ waiting = <<>>
    /\ served = <<>>

(***************************************************************************)
(* src/models.py, MeetingNotesRequest: the validation FastAPI runs on the  *)
(* body before the endpoint function is entered.                           *)
(***************************************************************************)
\* a slip: max_length left out of the field
ValidRequest_NoMaxLength(n) == n >= MinNotesLength

ValidRequest(n) == n >= MinNotesLength /\ n <= MaxNotesLength

\* POST /generate-minutes with a body the request model rejects
RejectRequest(n) ==
    /\ pc = "idle"
    /\ ~ValidRequest(n)
    /\ pc' = "done"
    /\ entry' = "http"
    /\ notes_len' = n
    /\ response' = [status |-> StatusUnprocessable, detail |-> "validation",
                    exc |-> Exc("RequestValidationError", "fastapi", JNull)]
    /\ UNCHANGED <<max_retries, attempt, calls, sleeps, outcomes, output, gen_result,
                   json_result, minutes_result>>

\* POST /generate-minutes with a valid body: the endpoint calls
\* minutes_service.generate_minutes, which calls llm_service.generate_json,
\* which calls generate with the default max_retries
PostGenerateMinutes(n) ==
    /\ pc = "idle"
    /\ ValidRequest(n)
    /\ pc' = "attempt"
    /\ entry' = "http"
    /\ notes_len' = n
    /\ max_retries' = DefaultMaxRetries
    /\ attempt' = 0
    /\ UNCHANGED <<calls, sleeps, outcomes, output, gen_result, json_result,
                   minutes_result, response>>

\* a direct call of LLMService.generate with max_retries = m
CallGenerate(m) ==
    /\ pc = "idle"
    /\ pc' = "attempt"
    /\ entry' = "generate"
    /\ max_retries' = m
    /\ attempt' = 0
    /\ UNCHANGED <<notes_len, calls, sleeps, outcomes, output, gen_result,
                   json_result, minutes_result, response>>

(***************************************************************************)
(* LLMService.generate, lines 68-114: one iteration of the retry loop per  *)
(* action, by what the capability does in it.                              *)
(***************************************************************************)
\* where generate's caller continues
AfterGenerate == IF entry = "generate" THEN "done" ELSE "repair"

\* a slip: a wait that triples
RateLimitWait_Tripled(k) == (BackoffBase + 1) ^ k

\* a slip: a wait that grows linearly
RateLimitWait_Linear(k) == BackoffBase * k

\* line 96
RateLimitWait(k) == BackoffBase ^ k

\* line 105
MayRetryConnection(k, m) == k < m - 1

\* a slip: the last attempt's failure raised in place of the terminal one
RetriesExhausted_LastError == Exc("RateLimitError", "capability", JNull)

\* line 114
RetriesExhausted == Exc("Exception", "gateway", JNull)

\* What an except clause does in iteration k of m: [wait, retry, exc].
\* wait holds the argument of time.sleep when it sleeps; retry tells whether
\* the loop goes on; exc is what it raises when it does not.
Retry(wait) == [wait |-> <<wait>>, retry |-> TRUE, exc |-> Exc("none", "none", JNull)]
Propagate(exc) == [wait |-> <<>>, retry |-> FALSE, exc |-> exc]

\* lines 95-101
OnRateLimitError(k, m) == Retry(RateLimitWait(k))

\* a slip: connection failures backed off like rate limits
OnAPIConnectionError_Backoff(k, m) ==
    IF k < m - 1 THEN [wait |-> <<BackoffBase ^ k>>, retry |-> TRUE,
                       exc |-> Exc("none", "none", JNull)]
    ELSE [wait |-> <<>>, retry |-> FALSE,
          exc |-> Exc("APIConnectionError", "capability", JNull)]

\* lines 103-108
OnAPIConnectionError(k, m) ==
    IF MayRetryConnection(k, m) THEN Retry(ConnectionDelay)
    ELSE Propagate(Exc("APIConnectionError", "capability", JNull))

\* a slip: API errors retried like connection failures
OnAPIError_Retried(k, m) ==
    [wait |-> <<ConnectionDelay>>, retry |-> TRUE, exc |-> Exc("none", "none", JNull)]

\* lines 110-112: any other APIError is raised again
OnAPIError(k, m) == Propagate(Exc("APIError", "capability", JNull))

\* an exception no except clause names leaves the loop as it is
OnOtherError(cls, k, m) == Propagate(Exc(cls, "capability", JNull))

\* lines 75-93: the capability answers; generate returns message.content
AttemptSucceeds(o) ==
    /\ pc = "attempt"
    /\ calls' = calls + 1
    /\ outcomes' = Append(outcomes, "success")
    /\ output' = o
    /\ gen_result' = Return(Content(LayOut(o[1], o[2])))
    /\ pc' = AfterGenerate
    /\ UNCHANGED <<entry, notes_len, max_retries, attempt, sleeps, json_result,
                   minutes_result, response>>

\* lines 75-93: the capability answers with no text (content is None)
AttemptReturnsNone ==
    /\ pc = "attempt"
    /\ calls' = calls + 1
    /\ outcomes' = Append(outcomes, "success")
    /\ gen_result' = Return(NoContent)
    /\ pc' = AfterGenerate
    /\ UNCHANGED <<entry, notes_len, max_retries, attempt, sleeps, output,
                   json_result, minutes_result, response>>

\* lines 68-114: the capability raises cls, the except clause does h, and
\* line 114 raises when the loop has no iteration left
AttemptFails(cls, h) ==
    /\ pc = "attempt"
    /\ calls' = calls + 1
    /\ outcomes' = Append(outcomes, cls)
    /\ sleeps' = sleeps \o h.wait
    /\ IF h.retry
       THEN /\ attempt' = attempt + 1
            /\ IF attempt + 1 < max_retries
               THEN UNCHANGED <<pc, gen_result>>
               ELSE /\ gen_result' = Raise(RetriesExhausted)
                    /\ pc' = AfterGenerate
       ELSE /\ gen_result' = Raise(h.exc)
            /\ pc' = AfterGenerate
            /\ UNCHANGED attempt
    /\ UNCHANGED <<entry, notes_len, max_retries, output, json_result,
                   minutes_result, response>>

AttemptRateLimited ==
    AttemptFails("RateLimitError", OnRateLimitError(attempt, max_retries))

AttemptConnectionError ==
    AttemptFails("APIConnectionError", OnAPIConnectionError(attempt, max_retries))

AttemptAPIError == AttemptFails("APIError", OnAPIError(attempt, max_retries))

AttemptOtherError(cls) == AttemptFails(cls, OnOtherError(cls, attempt, max_retries))

(***************************************************************************)
(* LLMService.generate_json, lines 128-155, after generate has ended.      *)
(***************************************************************************)
MalformedOutput == Exc("ValueError", "gateway", JNull)

\* a slip: the parser's own error let through
ParseCleaned_Unwrapped(cleaned) ==
    LET r == json_loads(cleaned)
    IN  IF r.ok THEN Return(r.val) ELSE Raise(Exc("JSONDecodeError", "json", JNull))

\* lines 147-155
ParseCleaned(cleaned) ==
    LET r == json_loads(cleaned)
    IN  IF r.ok THEN Return(r.val) ELSE Raise(MalformedOutput)

generate_json_result(generated) ==
    IF generated.kind = "raise" THEN generated
    \* None has no strip
    ELSE IF generated.value.is_none THEN Raise(Exc("AttributeError", "runtime", JNull))
    ELSE ParseCleaned(CleanResponse(generated.value.text))

GenerateJsonEnds ==
    /\ pc = "repair"
    /\ json_result' = generate_json_result(gen_result)
    /\ pc' = "coerce"
    /\ UNCHANGED <<entry, notes_len, max_retries, attempt, calls, sleeps, outcomes,
                   output, gen_result, minutes_result, response>>

(***************************************************************************)
(* MinutesService.generate_minutes, lines 105-142, after generate_json.    *)
(***************************************************************************)
generate_minutes_result(parsed) ==
    IF parsed.kind = "raise" THEN parsed ELSE BuildMinutes(parsed.value)

GenerateMinutesEnds ==
    /\ pc = "coerce"
    /\ minutes_result' = generate_minutes_result(json_result)
    /\ pc' = "respond"
    /\ UNCHANGED <<entry, notes_len, max_retries, attempt, calls, sleeps, outcomes,
                   output, gen_result, json_result, response>>

(***************************************************************************)
(* src/main.py, generate_minutes, lines 89-124: the endpoint's try/except. *)
(***************************************************************************)
\* a slip: the except ValueError clause left out
StatusOfFailure_Always500(exc) == StatusServerError

\* lines 107-124: the status of a failure
StatusOfFailure(exc) ==
    IF IsValueError(exc) THEN StatusUnprocessable ELSE StatusServerError

ResponseFor(result) ==
    IF result.kind = "return"
    THEN [status |-> StatusOK, detail |-> "minutes", exc |-> Exc("none", "none", JNull)]
    ELSE IF StatusOfFailure(result.exc) = StatusUnprocessable
    \* detail = str(e)
    THEN [status |-> StatusUnprocessable, detail |-> "message", exc |-> result.exc]
    \* detail = the fixed message
    ELSE [status |-> StatusServerError, detail |-> "generic",
          exc |-> Exc("none", "none", JNull)]

Respond ==
    /\ pc = "respond"
    /\ response' = ResponseFor(minutes_result)
    /\ pc' = "done"
    /\ UNCHANGED <<entry, notes_len, max_retries, attempt, calls, sleeps, outcomes,
                   output, gen_result, json_result, minutes_result>>

\* a step of the request whose endpoint runs: the others stay as they are
OfRequest(step) == step /\ UNCHANGED loop_vars

Next ==
    \/ \E n \in NotesLengths : OfRequest(RejectRequest(n))
    \/ \E n \in NotesLengths : OfRequest(PostGenerateMinutes(n))
    \/ \E m \in 1..MaxAttempts : OfRequest(CallGenerate(m))
    \/ \E o \in (IF entry = "generate" THEN DirectOutputs ELSE ModelOutputs) :
          OfRequest(AttemptSucceeds(o))
    \/ OfRequest(AttemptReturnsNone)
    \/ OfRequest(AttemptRateLimited)
    \/ OfRequest(AttemptConnectionError)
    \/ OfRequest(AttemptAPIError)
    \/ \E cls \in UnclassifiedClasses : OfRequest(AttemptOtherError(cls))
    \/ OfRequest(GenerateJsonEnds)
    \/ OfRequest(GenerateMinutesEnds)
    \/ OfRequest(Respond)

Spec == Init /\ [][Next]_vars


(***************************************************************************)
(* src/main.py: the endpoints of one server process.  Both are coroutines  *)
(* (async def) run by one event loop, which runs one coroutine at a time   *)
(* and passes to another only where the running one awaits.  The body of   *)
(* generate_minutes awaits nothing: minutes_service.generate_minutes is    *)
(* an ordinary call, and the waits under it are time.sleep, which blocks   *)
(* the thread of the loop.  So request_vars is the frame of the one        *)
(* endpoint that runs, and pc = "idle" is the loop with nothing running.   *)
(***************************************************************************)
Kinds == {"health", "minutes"}

\* requests one server process is given
MaxRequests == 3

InFlight == Len(waiting) + (IF pc = "idle" THEN 0 ELSE 1)

Without(q, i) == SubSeq(q, 1, i - 1) \o SubSeq(q, i + 1, Len(q))

\* the answers the capability gives while several requests are in flight
LoopOutputs == {PlainLayout} \X {TObj(<<>>), TArr(<<TNull>>)}

\* a request reaches the server, whatever the loop is doing
Arrive(kind) ==
    /\ InFlight + Len(served) < MaxRequests
    /\ waiting' = Append(waiting, kind)
    /\ UNCHANGED <<request_vars, served>>

\* GET /health: the loop runs health_check, which answers at once
HealthCheck(i) ==
    /\ pc = "idle"
    /\ waiting[i] = "health"
    /\ waiting' = Without(waiting, i)
    /\ served' = Append(served, [kind |-> "health", status |-> StatusOK])
    /\ UNCHANGED request_vars

\* POST /generate-minutes: the loop validates the body and enters the endpoint
StartGenerateMinutes(i, n) ==
    /\ waiting[i] = "minutes"
    /\ RejectRequest(n) \/ PostGenerateMinutes(n)
    /\ waiting' = Without(waiting, i)
    /\ UNCHANGED served

\* the endpoint has returned or raised: the response is sent, the loop is free
Complete ==
    /\ pc = "done"
    /\ served' = Append(served, [kind |-> "minutes", status |-> response.status])
    /\ pc' = "idle"
    /\ entry' = "none"
    /\ notes_len' = 0
    /\ max_retries' = 0
    /\ attempt' = 0
    /\ calls' = 0
    /\ sleeps' = <<>>
    /\ outcomes' = <<>>
    /\ output' = NoOutput
    /\ gen_result' = NoResult
    /\ json_result' = NoResult
    /\ minutes_result' = NoResult
    /\ response' = NoResponse
    /\ UNCHANGED waiting

\* the loop takes up a request that is waiting
ServeWaiting ==
    \/ \E i \in 1..Len(waiting) : HealthCheck(i)
    \/ \E i \in 1..Len(waiting), n \in NotesLengths : StartGenerateMinutes(i, n)

ServerNext ==
    \/ \E kind \in Kinds : Arrive(kind)
    \/ ServeWaiting
    \/ \E o \in LoopOutputs : OfRequest(AttemptSucceeds(o))
    \/ OfRequest(AttemptReturnsNone)
    \/ OfRequest(AttemptRateLimited)
    \/ OfRequest(AttemptConnectionError)
    \/ OfRequest(AttemptAPIError)
    \/ \E cls \in UnclassifiedClasses : OfRequest(AttemptOtherError(cls))
    \/ OfRequest(GenerateJsonEnds)
    \/ OfRequest(GenerateMinutesEnds)
    \/ OfRequest(Respond)
    \/ Complete

ServerSpec == Init /\ [][ServerNext]_vars


(***************************************************************************)
(* Claims about LLMService.generate.                                       *)
(***************************************************************************)
AllRateLimited(n) == \A i \in 1..n : outcomes[i] = "RateLimitError"

GenerateEnded == gen_result.kind # "none"

\* the content the capability answered with
Answered == IF output = NoOutput THEN NoContent ELSE Content(LayOut(output[1], output[2]))

\* C1: when the capability is rate limited on the first k attempts and then
\* answers (k < max_retries), generate has made exactly k+1 attempts, has
\* slept 2^0, 2^1, ..., 2^(k-1) in that order, one sleep after each failed
\* attempt and before the next one, and returns the answer's text.
C1_RateLimitedThenSuccess ==
    /\ (pc = "attempt" /\ AllRateLimited(Len(outcomes)))
          => /\ calls = Len(outcomes)
             /\ Len(sleeps) = calls
             /\ attempt = calls
    /\ (/\ outcomes # <<>>
        /\ outcomes[Len(outcomes)] = "success"
        /\ AllRateLimited(Len(outcomes) - 1))
          => LET k == Len(outcomes) - 1
             IN  /\ k < max_retries
                 /\ calls = k + 1
                 /\ sleeps = [i \in 1..k |-> 2 ^ (i - 1)]
                 /\ gen_result = Return(Answered)

\* C1 witness: two rate limits, then an answer, with max_retries = 3
C1_Witness ==
    /\ max_retries = 3
    /\ outcomes = <<"RateLimitError", "RateLimitError", "success">>
    /\ calls = 3
    /\ sleeps = <<1, 2>>
    /\ gen_result.kind = "return"
    /\ ~gen_result.value.is_none

\* C2: when every attempt is rate limited, the capability is invoked exactly
\* max_retries times and generate then raises the retries-exhausted
\* exception, which is the gateway's own and never a RateLimitError.
C2_AllRateLimitedExhausts ==
    /\ (outcomes # <<>> /\ AllRateLimited(Len(outcomes)))
          => IF calls < max_retries
             THEN pc = "attempt" /\ ~GenerateEnded
             ELSE /\ calls = max_retries
                  /\ pc # "attempt"
                  /\ gen_result = Raise(Exc("Exception", "gateway", JNull))
    /\ gen_result.kind = "raise" => gen_result.exc.cls # "RateLimitError"

C2_Witness ==
    /\ max_retries = 3
    /\ outcomes = <<"RateLimitError", "RateLimitError", "RateLimitError">>
    /\ calls = 3
    /\ gen_result.kind = "raise"
    /\ gen_result.exc.cls = "Exception"

NonRetryable == {"APIError"} \cup UnclassifiedClasses

\* C3: a non-retryable API failure or an unclassified failure on any attempt
\* ends generate at once with that failure: it is the last attempt, and no
\* sleep follows it (the sleeps are those of the earlier, retried attempts).
C3_NonRetryableEndsCall ==
    \A i \in 1..Len(outcomes) :
        outcomes[i] \in NonRetryable
          => /\ i = Len(outcomes)
             /\ calls = i
             /\ Len(sleeps) = i - 1
             /\ pc # "attempt"
             /\ gen_result.kind = "raise"
             /\ gen_result.exc.cls = outcomes[i]

\* C3 witness: a rate limit and a connection failure were retried, then the
\* third attempt fails with a non-retryable API failure
C3_Witness ==
    /\ outcomes = <<"RateLimitError", "APIConnectionError", "APIError">>
    /\ sleeps = <<1, 2>>
    /\ max_retries = 4
    /\ gen_result.kind = "raise"

\* C4: a connection failure on a non-final attempt is followed by a sleep of
\* the one fixed length, whatever the attempt index, and then by the next
\* attempt, under the same cap as rate limits; a connection failure on the
\* final attempt is raised as it is, with no sleep after it, and is not the
\* retries-exhausted exception.
C4_ConnectionFailure ==
    \A i \in 1..Len(outcomes) :
        outcomes[i] = "APIConnectionError"
          => /\ i <= max_retries
             /\ IF i < max_retries
                THEN /\ Len(sleeps) >= i
                     /\ sleeps[i] = 2
                     /\ i = Len(outcomes) => (pc = "attempt" /\ attempt = i)
                ELSE /\ i = Len(outcomes)
                     /\ Len(sleeps) = i - 1
                     /\ pc # "attempt"
                     /\ gen_result
                          = Raise(Exc("APIConnectionError", "capability", JNull))

\* C4 witness: connection failures on every attempt of three
C4_Witness ==
    /\ max_retries = 3
    /\ outcomes = <<"APIConnectionError", "APIConnectionError", "APIConnectionError">>
    /\ sleeps = <<2, 2>>
    /\ gen_result.kind = "raise"
    /\ gen_result.exc.origin = "capability"


(***************************************************************************)
(* Claims about what leaves the gateway.                                   *)
(***************************************************************************)
GatewayOwn(exc) == exc.origin = "gateway"

\* C5 as stated: every failure that leaves generate or generate_json is one
\* of the gateway's own errors, never the capability's failure object.
C5_OnlyGatewayErrors ==
    /\ gen_result.kind = "raise" => GatewayOwn(gen_result.exc)
    /\ json_result.kind = "raise" => GatewayOwn(json_result.exc)

\* the capability's failure of the last attempt, raised again unchanged
ReraisedFromCapability(exc) ==
    /\ outcomes # <<>>
    /\ exc = Exc(outcomes[Len(outcomes)], "capability", JNull)
    /\ exc.cls \in {"APIConnectionError", "APIError"} \cup UnclassifiedClasses
    /\ exc.cls = "APIConnectionError" => calls = max_retries

\* C5 amended: a failure that leaves generate is the retries-exhausted
\* exception or the capability's own failure of the last attempt raised again
\* unchanged (a non-retryable API failure, an unclassified failure, or the
\* connection failure of the final attempt); a failure that leaves
\* generate_json is one of these, the malformed-output error for text that
\* does not parse, or the AttributeError of an answer without text.  A
\* rate-limit failure never leaves the gateway.
C5_FailuresLeavingGateway ==
    /\ gen_result.kind = "raise"
          => \/ gen_result.exc = Exc("Exception", "gateway", JNull)
             \/ ReraisedFromCapability(gen_result.exc)
    /\ json_result.kind = "raise"
          => \/ json_result = gen_result
             \/ /\ gen_result.kind = "return"
                /\ ~gen_result.value.is_none
                /\ json_result.exc = Exc("ValueError", "gateway", JNull)
             \/ /\ gen_result = Return(NoContent)
                /\ json_result.exc = Exc("AttributeError", "runtime", JNull)

\* C5 witness: generate_json ends with the capability's own connection
\* failure, raised by the final attempt
C5_Witness ==
    /\ pc = "coerce"
    /\ json_result = Raise(Exc("APIConnectionError", "capability", JNull))
    /\ calls = max_retries

(***************************************************************************)
(* Claims about the repair of the text.                                    *)
(***************************************************************************)
GenerateJsonEnded == json_result.kind # "none"

\* the answer is a JSON object, laid out with both fences or with none
FencedObject ==
    /\ output # NoOutput
    /\ output[2].t = "obj"
    /\ output[1].defect = "none"
    /\ output[1].opener \in {"json", "bare"}
    /\ output[1].closer

BareObject ==
    /\ output # NoOutput
    /\ output[2].t = "obj"
    /\ output[1].defect = "none"
    /\ output[1].opener = "none"
    /\ ~output[1].closer

\* C6: for a JSON object J, text made of optional blanks, a tagged or bare
\* opening fence, J between blanks, a closing fence and optional blanks is
\* parsed by generate_json to exactly J, and so is J without fences.
C6_FencedJsonParses ==
    (GenerateJsonEnded /\ (FencedObject \/ BareObject))
        => json_result = Return(ToValue(output[2]))

\* C6 witness: an object with a member between a tagged opener and a closer,
\* with blanks around the fences and the object
C6_Witness ==
    /\ GenerateJsonEnded
    /\ FencedObject
    /\ output[1].opener = "json"
    /\ output[1].outer # <<>>
    /\ output[1].gap # <<>>
    /\ output[2].v # <<>>
    /\ json_result.kind = "return"
    /\ json_result.value.t = "obj"
    /\ K_title \in DOMAIN json_result.value.v


(***************************************************************************)
(* Claims about MinutesService.generate_minutes.                           *)
(***************************************************************************)
MinutesReturned == minutes_result.kind = "return"

\* the action_items array of the parsed JSON, when the JSON is an object
\* that holds one
HasItemArray ==
    /\ json_result.kind = "return"
    /\ json_result.value.t = "obj"
    /\ K_action_items \in DOMAIN json_result.value.v
    /\ json_result.value.v[K_action_items].t = "arr"

SourceItems == json_result.value.v[K_action_items].v

\* C7: every action item of a returned MeetingMinutes has a non-empty
\* assignee, and an item whose assignee the model omitted has "TBD".
C7_AssigneeNonEmpty ==
    MinutesReturned
      => \A i \in 1..Len(minutes_result.value.action_items) :
            /\ minutes_result.value.action_items[i].assignee # <<>>
            /\ K_assignee \notin DOMAIN SourceItems[i].v
                  => minutes_result.value.action_items[i].assignee = S_TBD

\* C8: generate_json returns a JSON object or fails with the malformed-output
\* error: a value that is no object is never its result, so none reaches the
\* coercion of generate_minutes.
C8_ReturnsObject ==
    /\ json_result.kind = "return" => json_result.value.t = "obj"
    /\ (json_result.kind = "raise" /\ gen_result.kind = "return"
        /\ ~gen_result.value.is_none)
          => json_result.exc = Exc("ValueError", "gateway", JNull)

ValidPriorities == {JStr(S_high), JStr(S_medium), JStr(S_low)}

\* item i of the parsed JSON is an object with a priority outside the enumeration
Offending(i) ==
    /\ SourceItems[i].t = "obj"
    /\ K_priority \in DOMAIN SourceItems[i].v
    /\ SourceItems[i].v[K_priority] \notin ValidPriorities

OffendingItems == {i \in 1..Len(SourceItems) : Offending(i)}

\* in returned minutes a priority is the one the model wrote, and medium
\* where it wrote none
PrioritiesKept ==
    MinutesReturned
      => \A i \in 1..Len(minutes_result.value.action_items) :
            minutes_result.value.action_items[i].priority
              = IF K_priority \in DOMAIN SourceItems[i].v
                THEN SourceItems[i].v[K_priority].v
                ELSE S_medium

\* C9 as stated: when an action item has a priority that is present and
\* outside {high, medium, low}, the extraction fails with a validation error
\* that carries an offending raw value; otherwise priorities are kept, and
\* only a missing one becomes medium.
C9_InvalidPriorityFails ==
    /\ PrioritiesKept
    /\ (pc \in {"respond", "done"} /\ HasItemArray /\ OffendingItems # {})
          => /\ minutes_result.kind = "raise"
             /\ minutes_result.exc.cls = "ValueError"
             /\ minutes_result.exc.origin = "models"
             /\ \E i \in OffendingItems :
                   minutes_result.exc.arg = SourceItems[i].v[K_priority]

FirstOffending == CHOOSE i \in OffendingItems : \A j \in OffendingItems : i <= j

\* every topic, and every action item before item i, passes its coercion
NothingFailsBefore(i) ==
    LET topic_iter == Iterate(dict_get(json_result.value, K_topics_discussed, JArr(<<>>)))
    IN  /\ topic_iter.kind = "return"
        /\ \A t \in 1..Len(topic_iter.value) : TopicOf(topic_iter.value[t]).kind = "return"
        /\ \A j \in 1..(i - 1) : ActionItemOf(SourceItems[j]).kind = "return"

\* C9 amended: with such an action item the extraction fails and returns no
\* MeetingMinutes, and the value is never replaced by a default; the failure
\* is the validation error carrying the offending raw value when that item is
\* the first element (topics, then action items in order) to fail coercion.
\* In returned minutes only a missing priority is medium.
C9_InvalidPriorityFailsFirst ==
    /\ PrioritiesKept
    /\ (pc \in {"respond", "done"} /\ HasItemArray /\ OffendingItems # {})
          => /\ minutes_result.kind = "raise"
             /\ NothingFailsBefore(FirstOffending)
                  => minutes_result
                       = Raise(Exc("ValueError", "models",
                                   SourceItems[FirstOffending].v[K_priority]))

\* C9 witness: the second of two action items has priority "urgent", and the
\* extraction fails naming it
C9_Witness ==
    /\ pc = "respond"
    /\ HasItemArray
    /\ OffendingItems = {2}
    /\ minutes_result = Raise(Exc("ValueError", "models", JStr(S_urgent)))

(***************************************************************************)
(* Claims about POST /generate-minutes.                                    *)
(***************************************************************************)
RequestDone == pc = "done" /\ entry = "http"

Statuses == {StatusOK, StatusUnprocessable, StatusServerError}

FailedJsonParsing ==
    /\ minutes_result.kind = "raise"
    /\ minutes_result.exc = Exc("ValueError", "gateway", JNull)

FailedPriorityCoercion ==
    /\ minutes_result.kind = "raise"
    /\ minutes_result.exc.cls = "ValueError"
    /\ minutes_result.exc.origin = "models"

GenericServerError ==
    /\ response.status = 500
    /\ response.detail = "generic"
    /\ response.exc = Exc("none", "none", JNull)

\* C10 as stated: the response is 422 with the error message when input
\* validation, JSON parsing of the model output or priority coercion fails,
\* 500 with the fixed generic message for every other failure, and every
\* request ends in exactly one of 200, 422, 500.
C10_StatusMapping ==
    RequestDone
      => /\ response.status \in Statuses
         /\ ~ValidRequest(notes_len) => response.status = 422
         /\ (FailedJsonParsing \/ FailedPriorityCoercion)
               => (response.status = 422 /\ response.exc = minutes_result.exc)
         /\ (/\ minutes_result.kind = "raise"
             /\ ~FailedJsonParsing
             /\ ~FailedPriorityCoercion) => GenericServerError
         /\ minutes_result.kind = "return" => response.status = 200

\* C10 amended: the response is 422 with the error message when input
\* validation fails or the failure is a ValueError (malformed model JSON, a
\* priority outside the enumeration, a field of the model's JSON that the
\* typed models reject, a ValueError of the capability), 500 with the fixed
\* generic message for every failure that is no ValueError, 200 otherwise.
C10_StatusByValueError ==
    RequestDone
      => /\ response.status \in Statuses
         /\ ~ValidRequest(notes_len) => response.status = 422
         /\ (/\ minutes_result.kind = "raise"
             /\ minutes_result.exc.cls \in {"ValueError", "ValidationError"})
               => (/\ response.status = 422
                   /\ response.detail = "message"
                   /\ response.exc = minutes_result.exc)
         /\ (/\ minutes_result.kind = "raise"
             /\ minutes_result.exc.cls \notin {"ValueError", "ValidationError"})
               => GenericServerError
         /\ minutes_result.kind = "return" => response.status = 200

\* C10 witness: the typed models reject a field of the model's JSON (a null
\* assignee) and the request ends with 422
C10_Witness ==
    /\ RequestDone
    /\ minutes_result = Raise(Exc("ValidationError", "models", JNull))
    /\ response.status = 422
    /\ HasItemArray
    /\ Len(SourceItems) = 1


(***************************************************************************)
(* Claims about the request boundary and the time spent waiting.           *)
(***************************************************************************)
\* C11: a request whose raw_notes is missing, shorter than 50 or longer than
\* 50000 characters is answered 422, and neither generate_minutes nor the
\* capability is invoked for it: no attempt is made.
C11_InvalidInputNeverReachesCore ==
    (entry = "http" /\ (notes_len < 50 \/ notes_len > 50000))
      => /\ pc = "done"
         /\ response.status = 422
         /\ calls = 0
         /\ outcomes = <<>>
         /\ sleeps = <<>>
         /\ gen_result = NoResult
         /\ json_result = NoResult
         /\ minutes_result = NoResult

\* C11 witness: notes of 50001 characters are rejected
C11_Witness ==
    /\ RequestDone
    /\ notes_len = 50001
    /\ response.status = 422
    /\ calls = 0

RECURSIVE SumSeq(_)
SumSeq(q) == IF q = <<>> THEN 0 ELSE Head(q) + SumSeq(Tail(q))

\* C12 as stated: with max_retries = 3 one call of generate sleeps at most
\* 1 + 2 + 4 = 7 time units in all, whatever the attempts do.
C12_TotalWaitAtMost7 == max_retries = 3 => SumSeq(sleeps) <= 7

\* C12 amended: with max_retries = 3 one call of generate sleeps at most
\* 2 + 2 + 4 = 8 time units in all (a connection failure on the first
\* attempt, then two rate limits), and at most 7 when the first attempt is
\* no connection failure.
C12_TotalWaitAtMost8 ==
    max_retries = 3
      => /\ SumSeq(sleeps) <= 8
         /\ (outcomes # <<>> /\ outcomes[1] # "APIConnectionError")
               => SumSeq(sleeps) <= 7

\* C12 witness: a connection failure, then two rate limits: 2 + 2 + 4
C12_Witness ==
    /\ max_retries = 3
    /\ outcomes = <<"APIConnectionError", "RateLimitError", "RateLimitError">>
    /\ sleeps = <<2, 2, 4>>
    /\ gen_result.kind = "raise"


(***************************************************************************)
(* Claims about requests in flight together.                               *)
(***************************************************************************)
\* between two attempts of generate: inside time.sleep, or just out of it
InBackoffWait == entry = "http" /\ pc = "attempt" /\ attempt > 0

\* C13: while one POST /generate-minutes request is in the backoff wait
\* between two attempts, any other request in flight can be handled: the
\* wait of one request neither orders nor excludes the progress of another.
C13_WaitExcludesNoRequest ==
    (InBackoffWait /\ waiting # <<>>) => ENABLED ServeWaiting


====
